---- MODULE Spec2Model ----
(***************************************************************************)
(* Model of evergreen/api.py: the request, error-classification and        *)
(* pagination layer of the Evergreen REST client (_BaseEvergreenApi) and    *)
(* the accessors built on it.                                               *)
(*                                                                          *)
(* The server is the environment: every physical request (session.get) is   *)
(* answered with a response drawn from Responses(k), k being the number of  *)
(* the request within the call.  A response is its status code, its body    *)
(* text and the URL of its "next" link relation (NoNext when absent).       *)
(* Status codes range over valid HTTP codes (100..599).                     *)
(***************************************************************************)
EXTENDS Integers, Sequences, FiniteSets, TLC

VARIABLES auth, api_server, headers, log, server, first, endpoint, url,
          pc, accessor, params, requests, pages, last, response, json_data, exc, result

vars == <<auth, api_server, headers, log, server, first, endpoint, url,
          pc, accessor, params, requests, pages, last, response, json_data, exc, result>>

(***************************************************************************)
(* Bounds of the model.                                                     *)
(***************************************************************************)
MaxRequests == 3
MaxPageLen == 2
MaxLimit == 2
MaxUrl == 1

(***************************************************************************)
(* JSON values, as response.json() yields them.  A value is its Python      *)
(* type t, its items (the elements of a list, the keys of a dict: what      *)
(* iterating it yields) and, for a dict, the value of its "error" key.      *)
(* An item is tagged with the page and position it came from, so that a     *)
(* dropped, repeated or reordered record is visible; key is the string an   *)
(* item is when it is a dict key and "" when it is a record object.         *)
(***************************************************************************)
Item(k, i, key) == [page |-> k, pos |-> i, key |-> key]

JsonList(k, n) == [t |-> "list", items |-> [i \in 1..n |-> Item(k, i, "")], error |-> ""]

JsonObject(k) == [t |-> "dict", items |-> <<Item(k, 1, "id")>>, error |-> ""]

JsonErrorObject(k, msg) ==
    [t |-> "dict", items |-> <<Item(k, 1, "error")>>, error |-> msg]

JsonNull == [t |-> "NoneType", items |-> <<>>, error |-> ""]

ErrorMessages == {"invalid project id"}

\* Body texts: an empty body, a text that is not JSON, and JSON documents.
EmptyBody == [text |-> "empty", json |-> JsonNull]
GarbageBody == [text |-> "garbage", json |-> JsonNull]
JsonBody(v) == [text |-> "json", json |-> v]

Bodies(k) ==
    {EmptyBody, GarbageBody, JsonBody(JsonNull), JsonBody(JsonObject(k))}
    \cup {JsonBody(JsonErrorObject(k, m)) : m \in ErrorMessages}
    \cup {JsonBody(JsonList(k, n)) : n \in 0..MaxPageLen}

Statuses == {200, 399, 400, 500}

NoNext == ""
NextUrl(n) == IF n = 1 THEN "http://evergreen.mongodb.com/next/1"
              ELSE IF n = 2 THEN "http://evergreen.mongodb.com/next/2"
              ELSE "http://evergreen.mongodb.com/next/3"
NextLinks == {NoNext} \cup {NextUrl(n) : n \in 1..MaxUrl}

Responses(k) == [status : Statuses, body : Bodies(k), next : NextLinks]

NoResponse == [status |-> 0, body |-> EmptyBody, next |-> NoNext]

(***************************************************************************)
(* Query parameters: None, a dict without a limit key, a dict with one.     *)
(***************************************************************************)
NoParams == [given |-> FALSE, has_limit |-> FALSE, limit |-> 0]
ParamsNoLimit == [given |-> TRUE, has_limit |-> FALSE, limit |-> 0]
ParamsLimit(l) == [given |-> TRUE, has_limit |-> TRUE, limit |-> l]
ParamsSet == {NoParams, ParamsNoLimit} \cup {ParamsLimit(l) : l \in 0..MaxLimit}

(***************************************************************************)
(* Exceptions.                                                              *)
(***************************************************************************)
NoExc == [type |-> "none", msg |-> "", status |-> 0]
HTTPError(msg, r) == [type |-> "HTTPError", msg |-> msg, status |-> r.status]
ValueError == [type |-> "ValueError", msg |-> "", status |-> 0]
TypeError == [type |-> "TypeError", msg |-> "", status |-> 0]
AttributeError == [type |-> "AttributeError", msg |-> "", status |-> 0]
ConnectionError == [type |-> "ConnectionError", msg |-> "", status |-> 0]

(***************************************************************************)
(* requests.Response.json(): the parsed body; raises ValueError when the    *)
(* body is empty or is not JSON.                                            *)
(***************************************************************************)
JsonRaises_EmptyIsNone(r) == r.body.text = "garbage"
JsonRaises(r) == r.body.text # "json"
Json(r) == r.body.json

FirstData_Cached(r) ==
    IF first.result.kind = "json" /\ first.result.json.t = "list" /\ Json(r).t = "list"
    THEN [Json(r) EXCEPT !.items = first.result.json.items \o @]
    ELSE Json(r)

\* Line 119: json_data = response.json().
FirstData(r) == Json(r)

\* Python's  'error' in v : key membership for a dict, element membership
\* for a list, a TypeError for None.
InRaises(v) == v.t = "NoneType"
In(key, v) == \E i \in 1..Len(v.items) : v.items[i].key = key

\* Python's  v['error'] : the value for a dict, a TypeError otherwise.
SubscriptRaises(v) == v.t # "dict"

Truthy_Always(v) == TRUE

\* Python's truth value of a parsed body.
Truthy(v) == Len(v.items) > 0

\* Python's len(v): a TypeError for None.
LenRaises(v) == v.t = "NoneType"

\* Python's acc.extend(v): only a list has it; it appends what iterating v yields.
ExtendRaises(acc) == acc.t # "list"
Extend_Prepend(acc, v) == [acc EXCEPT !.items = v.items \o @]
Extend(acc, v) == [acc EXCEPT !.items = @ \o v.items]

\* requests.Response.raise_for_status(): HTTPError for 400 <= status < 600.
ResponseRaiseForStatus(r) ==
    IF 400 <= r.status /\ r.status < 500 THEN HTTPError("Client Error", r)
    ELSE IF 500 <= r.status /\ r.status < 600 THEN HTTPError("Server Error", r)
    ELSE NoExc

RaiseForStatus_NoStatusTest(r) ==
    IF JsonRaises(r) THEN ValueError
    ELSE IF InRaises(Json(r)) THEN TypeError
    ELSE IF In("error", Json(r))
         THEN IF SubscriptRaises(Json(r)) THEN TypeError
              ELSE HTTPError(Json(r).error, r)
         ELSE ResponseRaiseForStatus(r)

RaiseForStatus_GenericFirst(r) ==
    IF ResponseRaiseForStatus(r) # NoExc THEN ResponseRaiseForStatus(r)
    ELSE IF r.status >= 400 /\ ~JsonRaises(r) /\ Json(r).t = "dict" /\ In("error", Json(r))
         THEN HTTPError(Json(r).error, r)
         ELSE NoExc

\* _raise_for_status: the exception it raises for response r, NoExc if none.
RaiseForStatus(r) ==
    IF r.status >= 400
    THEN IF JsonRaises(r) THEN ValueError
         ELSE IF InRaises(Json(r)) THEN TypeError
         ELSE IF In("error", Json(r))
              THEN IF SubscriptRaises(Json(r)) THEN TypeError
                   ELSE HTTPError(Json(r).error, r)
              ELSE ResponseRaiseForStatus(r)
    ELSE ResponseRaiseForStatus(r)

CallApi_Swallow(r) == NoExc

\* _call_api: the exception the call raises when the server answers r.
CallApi(r) == RaiseForStatus(r)

(***************************************************************************)
(* URLs.                                                                    *)
(***************************************************************************)
DEFAULT_API_SERVER == "http://evergreen.mongodb.com"

FormatUrl_ExtraSlash(origin, e) == origin \o "/rest/v2/" \o e

\* '{api_server}/rest/v2{endpoint}'.format(api_server=origin, endpoint=e)
FormatUrl(origin, e) == origin \o "/rest/v2" \o e

\* _create_url
CreateUrl(e) == FormatUrl(api_server, e)

ListAccessors == {"get_all_hosts"}
PaginateByIdAccessors == {"get_project_by_id", "build_by_id", "version_by_id"}
ByIdAccessors == PaginateByIdAccessors \cup {"patch_by_id"}
Accessors == ListAccessors \cup ByIdAccessors

Endpoint(a) ==
    IF a = "get_all_hosts" THEN "/hosts"
    ELSE IF a = "get_project_by_id" THEN "/projects/id1"
    ELSE IF a = "build_by_id" THEN "/build/id1"
    ELSE IF a = "version_by_id" THEN "/versions/id1"
    ELSE "/patches/id1"

(***************************************************************************)
(* The session: the headers __init__ sets when a credential is given.       *)
(***************************************************************************)
NoAuth == [given |-> FALSE, username |-> "", api_key |-> ""]
EvgAuth(u, k) == [given |-> TRUE, username |-> u, api_key |-> k]
Auths == {NoAuth, EvgAuth("user1", "key1")}

SessionHeaders_UserOnly(a) ==
    IF a.given THEN {<<"Api-User", a.username>>} ELSE {}

\* Lines 59-63: session.headers.update(...) when auth is given.
SessionHeaders(a) ==
    IF a.given
    THEN {<<"Api-User", a.username>>, <<"Api-Key", a.api_key>>}
    ELSE {}

(***************************************************************************)
(* _log_api_call_time.  Durations are in milliseconds; round(duration, 2)   *)
(* yields hundredths of a second (no duration of the model is a tie).       *)
(***************************************************************************)
Round2_Truncate(ms) == ms \div 10
Round2(ms) == (ms + 5) \div 10

\* The record logged: LOGGER.info above 10 seconds, LOGGER.debug otherwise;
\* elapsed keeps the time that was measured, for the properties.
LogApiCallTime(u, ms) ==
    [level |-> IF Round2(ms) > 10 * 100 THEN "INFO" ELSE "DEBUG",
     url |-> u,
     duration |-> Round2(ms),
     elapsed |-> ms]

Durations == {250, 10004, 10006}
QuickDurations == {250}

(***************************************************************************)
(* Values handed to the caller.                                             *)
(***************************************************************************)
NoResult == [kind |-> "none", json |-> JsonNull, response |-> NoResponse]
JsonResult_Sliced(v) ==
    [kind |-> "json",
     json |-> IF params.given /\ params.has_limit /\ Len(v.items) > params.limit
              THEN [v EXCEPT !.items = SubSeq(@, 1, params.limit)]
              ELSE v,
     response |-> NoResponse]
JsonResult(v) == [kind |-> "json", json |-> v, response |-> NoResponse]
ResponseResult(r) == [kind |-> "response", json |-> JsonNull, response |-> r]

\* session.get(url=url, params=params): the session's headers go with it.
Request(u, p) == [url |-> u, params |-> p, headers |-> headers]

\* What the history of a call keeps of each response received.
Page(r) == [body |-> r.body, next |-> r.next]

(***************************************************************************)
(* State after construction: no request has been issued.                    *)
(***************************************************************************)
NoServer == <<>>
NoFirst == [pc |-> "none", result |-> NoResult, exc |-> NoExc, requests |-> <<>>]

\* __init__(api_server, auth), before any call.
Construct(origin, a) ==
    /\ auth = a
    /\ api_server = origin
    /\ headers = SessionHeaders(a)
    /\ log = <<>>
    /\ first = NoFirst
    /\ endpoint = ""
    /\ url = ""
    /\ pc = "idle"
    /\ accessor = "none"
    /\ params = NoParams
    /\ requests = <<>>
    /\ pages = <<>>
    /\ last = NoResponse
    /\ response = NoResponse
    /\ json_data = JsonNull
    /\ exc = NoExc
    /\ result = NoResult

\* The client get_api builds without a credential: cls(auth=None).
Init ==
    /\ server = NoServer
    /\ Construct(DEFAULT_API_SERVER, NoAuth)

\* What no step of a call changes: the client's construction and the server.
fixed == <<auth, api_server, headers, server, first>>

\* An accessor is called; it builds its URL with _create_url.
Invoke(a, p) ==
    /\ pc = "idle"
    /\ accessor' = a
    /\ params' = p
    /\ endpoint' = Endpoint(a)
    /\ url' = CreateUrl(Endpoint(a))
    /\ pc' = IF a = "patch_by_id" THEN "call_api" ELSE "paginate"
    /\ UNCHANGED <<requests, pages, last, response, json_data, exc, result, log>>
    /\ UNCHANGED fixed

\* _paginate, lines 118-119: the first request, then json_data = response.json().
PaginateFirst(r, d) ==
    /\ pc = "paginate"
    /\ requests' = Append(requests, Request(url, params))
    /\ pages' = Append(pages, Page(r))
    /\ last' = r
    /\ log' = Append(log, LogApiCallTime(url, d))
    /\ IF CallApi(r) # NoExc
       THEN /\ pc' = "failed"
            /\ exc' = CallApi(r)
            /\ UNCHANGED <<response, json_data>>
       ELSE /\ response' = r
            /\ IF JsonRaises(r)
               THEN /\ pc' = "failed"
                    /\ exc' = ValueError
                    /\ UNCHANGED json_data
               ELSE /\ pc' = "loop"
                    /\ json_data' = FirstData(r)
                    /\ UNCHANGED exc
    /\ UNCHANGED <<accessor, params, result, endpoint, url>>
    /\ UNCHANGED fixed

HasLimit_Positive == params.given /\ params.has_limit /\ params.limit > 0

\* The condition of line 121:  params and 'limit' in params.
HasLimit == params.given /\ params.has_limit
LimitReached_Strict == HasLimit /\ Len(json_data.items) > params.limit
LimitReached == HasLimit /\ Len(json_data.items) >= params.limit

HasNext_OrBelowLimit == response.next # NoNext \/ (HasLimit /\ ~LimitReached)

\* The loop condition of line 120:  "next" in response.links.
HasNext == response.next # NoNext

NextRequest_ResendsParams == Request(response.next, params)

\* Line 123: the request for the next page, _call_api(response.links['next']['url']).
NextRequest == Request(response.next, NoParams)

\* _paginate, lines 120-122 and 127: the loop ends and json_data is returned.
PaginateReturn ==
    /\ pc = "loop"
    /\ \/ ~HasNext
       \/ /\ HasLimit
          /\ ~LenRaises(json_data)
          /\ LimitReached
    /\ pc' = "done"
    /\ result' = JsonResult(json_data)
    /\ UNCHANGED <<accessor, params, requests, pages, last, response, json_data, exc,
                   endpoint, url, log>>
    /\ UNCHANGED fixed

\* _paginate, line 121: len(json_data) raises when json_data is None.
PaginateLenError ==
    /\ pc = "loop"
    /\ HasNext
    /\ HasLimit
    /\ LenRaises(json_data)
    /\ pc' = "failed"
    /\ exc' = TypeError
    /\ UNCHANGED <<accessor, params, requests, pages, last, response, json_data, result,
                   endpoint, url, log>>
    /\ UNCHANGED fixed

FetchesNext_UnseenUrl ==
    /\ pc = "loop"
    /\ HasNext
    /\ ~(HasLimit /\ (LenRaises(json_data) \/ LimitReached))
    /\ Len(requests) < MaxRequests
    /\ \A i \in 1..Len(requests) : requests[i].url # response.next

\* The loop goes on to line 123.
FetchesNext ==
    /\ pc = "loop"
    /\ HasNext
    /\ ~(HasLimit /\ (LenRaises(json_data) \/ LimitReached))
    /\ Len(requests) < MaxRequests

\* _paginate, lines 123-125: the next page is requested and appended.
PaginateNext(r, d) ==
    /\ FetchesNext
    /\ requests' = Append(requests, NextRequest)
    /\ pages' = Append(pages, Page(r))
    /\ last' = r
    /\ log' = Append(log, LogApiCallTime(NextRequest.url, d))
    /\ IF CallApi(r) # NoExc
       THEN /\ pc' = "failed"
            /\ exc' = CallApi(r)
            /\ UNCHANGED <<response, json_data>>
       ELSE /\ response' = r
            /\ IF JsonRaises(r)
               THEN /\ pc' = "failed"
                    /\ exc' = ValueError
                    /\ UNCHANGED json_data
               ELSE IF ~Truthy(Json(r))
               THEN /\ pc' = "loop"
                    /\ UNCHANGED <<json_data, exc>>
               ELSE IF ExtendRaises(json_data)
               THEN /\ pc' = "failed"
                    /\ exc' = AttributeError
                    /\ UNCHANGED json_data
               ELSE /\ pc' = "loop"
                    /\ json_data' = Extend(json_data, Json(r))
                    /\ UNCHANGED exc
    /\ UNCHANGED <<accessor, params, result, endpoint, url>>
    /\ UNCHANGED fixed

\* patch_by_id, line 295: one _call_api, the response itself is wrapped.
PatchById(r, d) ==
    /\ pc = "call_api"
    /\ requests' = Append(requests, Request(url, params))
    /\ pages' = Append(pages, Page(r))
    /\ last' = r
    /\ log' = Append(log, LogApiCallTime(url, d))
    /\ IF CallApi(r) # NoExc
       THEN /\ pc' = "failed"
            /\ exc' = CallApi(r)
            /\ UNCHANGED <<response, result>>
       ELSE /\ pc' = "done"
            /\ response' = r
            /\ result' = ResponseResult(r)
            /\ UNCHANGED exc
    /\ UNCHANGED <<accessor, params, json_data, endpoint, url>>
    /\ UNCHANGED fixed

\* _call_api, line 92: session.get raises (connection refused, timeout): no
\* response, no timing record; the exception leaves the call.
ConnectionFails ==
    /\ \/ /\ pc \in {"paginate", "call_api"}
          /\ requests' = Append(requests, Request(url, params))
       \/ /\ FetchesNext
          /\ requests' = Append(requests, NextRequest)
    /\ pc' = "failed"
    /\ exc' = ConnectionError
    /\ UNCHANGED <<accessor, params, pages, last, response, json_data, result,
                   endpoint, url, log>>
    /\ UNCHANGED fixed

Next ==
    \/ \E a \in Accessors, p \in ParamsSet : Invoke(a, p)
    \/ \E r \in Responses(Len(requests) + 1), d \in QuickDurations : PaginateFirst(r, d)
    \/ PaginateReturn
    \/ PaginateLenError
    \/ \E r \in Responses(Len(requests) + 1), d \in QuickDurations : PaginateNext(r, d)
    \/ \E r \in Responses(Len(requests) + 1), d \in QuickDurations : PatchById(r, d)
    \/ ConnectionFails

Spec == Init /\ [][Next]_vars

(***************************************************************************)
(* A server whose answers do not change: one response for each URL, and a   *)
(* caller that repeats its get_all_hosts call with the same arguments.      *)
(***************************************************************************)
ServerUrls ==
    {FormatUrl(DEFAULT_API_SERVER, Endpoint("get_all_hosts"))}
    \cup {NextUrl(n) : n \in 1..MaxUrl}

\* The page a URL is, for the tags of its records.
UrlPage(u) == IF u = NextUrl(1) THEN 2 ELSE IF u = NextUrl(2) THEN 3
              ELSE IF u = NextUrl(3) THEN 4 ELSE 1

FixedResponses(u) ==
    [status : {200, 400},
     body : {JsonBody(JsonList(UrlPage(u), 0)), JsonBody(JsonList(UrlPage(u), 1)),
             JsonBody(JsonNull), GarbageBody},
     next : NextLinks]

FixedServers ==
    {f \in [ServerUrls -> UNION {FixedResponses(u) : u \in ServerUrls}] :
        \A u \in ServerUrls : f[u] \in FixedResponses(u)}

InitFixed ==
    /\ server \in FixedServers
    /\ Construct(DEFAULT_API_SERVER, NoAuth)

\* The caller calls the accessor again, with the same arguments: a new
\* activation of _paginate, whose locals are not yet bound.
CallAgain ==
    /\ pc \in {"done", "failed"}
    /\ first = NoFirst
    /\ first' = [pc |-> pc, result |-> result, exc |-> exc, requests |-> requests]
    /\ url' = CreateUrl(Endpoint(accessor))
    /\ pc' = "paginate"
    /\ requests' = <<>>
    /\ pages' = <<>>
    /\ last' = NoResponse
    /\ response' = NoResponse
    /\ json_data' = JsonNull
    /\ exc' = NoExc
    /\ result' = NoResult
    /\ UNCHANGED <<auth, api_server, headers, server, log, accessor, params, endpoint>>

NextFixed ==
    \/ \E p \in {NoParams, ParamsLimit(1)} : Invoke("get_all_hosts", p)
    \/ \E d \in QuickDurations : PaginateFirst(server[url], d)
    \/ PaginateReturn
    \/ PaginateLenError
    \/ \E d \in QuickDurations : PaginateNext(server[response.next], d)
    \/ CallAgain

SpecFixed == InitFixed /\ [][NextFixed]_vars

\* The steps of _paginate itself: once called, the interpreter runs the
\* function on, statement after statement; the caller's calls are not forced.
PaginateStepsFixed ==
    \/ \E d \in QuickDurations : PaginateFirst(server[url], d)
    \/ PaginateReturn
    \/ PaginateLenError
    \/ \E d \in QuickDurations : PaginateNext(server[response.next], d)

FairFixed == SpecFixed /\ WF_vars(PaginateStepsFixed)

(***************************************************************************)
(* Clients constructed with and without a credential, and requests of       *)
(* various durations.                                                       *)
(***************************************************************************)
SessionResponses(k) ==
    [status : {200, 500},
     body : {JsonBody(JsonList(k, 1)), JsonBody(JsonNull), GarbageBody},
     next : NextLinks]

InitSession ==
    /\ server = NoServer
    /\ \E a \in Auths : Construct(DEFAULT_API_SERVER, a)

NextSession ==
    \/ \E a \in {"get_all_hosts", "patch_by_id"}, p \in {NoParams, ParamsLimit(MaxLimit)} :
            Invoke(a, p)
    \/ \E r \in SessionResponses(Len(requests) + 1), d \in Durations : PaginateFirst(r, d)
    \/ PaginateReturn
    \/ PaginateLenError
    \/ \E r \in SessionResponses(Len(requests) + 1), d \in Durations : PaginateNext(r, d)
    \/ \E r \in SessionResponses(Len(requests) + 1), d \in Durations : PatchById(r, d)
    \/ ConnectionFails

SpecSession == InitSession /\ [][NextSession]_vars

(***************************************************************************)
(* _create_url alone, on clients constructed for various origins and for    *)
(* various resource paths.                                                  *)
(***************************************************************************)
ApiServers ==
    {DEFAULT_API_SERVER, "http://host", "https://host", "http://host:8080",
     "http://host/", "http://host/evg", "host", ""}

Endpoints ==
    {"/projects/foo", "/hosts", "/projects", "/build/b1", "/versions/v1",
     "/patches/p1", "/projects/foo/patches", "", "/", "hosts", "//hosts",
     "/hosts/", "/projects/a b", "/projects/a%20b", "/hosts?limit=1",
     "/projects/{id}", "/rest/v2"}

InitUrl ==
    /\ server = NoServer
    /\ \E origin \in ApiServers : Construct(origin, NoAuth)

CreateUrlCall(e) ==
    /\ pc = "idle"
    /\ endpoint' = e
    /\ url' = CreateUrl(e)
    /\ pc' = "url"
    /\ UNCHANGED <<auth, api_server, headers, log, server, first, accessor, params, requests,
                   pages, last, response, json_data, exc, result>>

NextUrlSpec == \E e \in Endpoints : CreateUrlCall(e)

SpecUrl == InitUrl /\ [][NextUrlSpec]_vars

(***************************************************************************)
(* Properties.                                                              *)
(***************************************************************************)
\* The call goes through _paginate (every accessor but patch_by_id).
IsPaginate == accessor \in ListAccessors \cup PaginateByIdAccessors

IsListBody(b) == b.text = "json" /\ b.json.t = "list"

AllListPages == \A i \in 1..Len(pages) : IsListBody(pages[i].body)

\* The records of the first n pages received, in arrival order.
RECURSIVE RecordsOf(_)
RecordsOf(n) == IF n = 0 THEN <<>> ELSE RecordsOf(n - 1) \o pages[n].body.json.items

\* C1: without a limit, a chain of N successful pages of records, each but
\* the last carrying a "next" link, is answered with the concatenation of the
\* N pages' records in arrival order, after exactly N requests.
C1_ConcatenatesAllPages ==
    (pc = "done" /\ IsPaginate /\ ~HasLimit /\ AllListPages) =>
        /\ result = JsonResult([t |-> "list", items |-> RecordsOf(Len(pages)), error |-> ""])
        /\ Len(requests) = Len(pages)
        /\ pages[Len(pages)].next = NoNext
        /\ \A i \in 1..(Len(pages) - 1) : pages[i].next # NoNext

C1_Witness ==
    /\ pc = "done" /\ IsPaginate /\ ~HasLimit /\ AllListPages
    /\ Len(requests) = 3
    /\ \A i \in 1..3 : Len(pages[i].body.json.items) > 0
    /\ Len(result.json.items) > 3

\* The first response was accepted by _call_api and its body is a list of
\* at least limit records.
FirstPageMeetsLimit ==
    /\ IsPaginate /\ HasLimit /\ Len(pages) >= 1
    /\ Len(pages) >= 2 \/ pc \in {"loop", "done"}
    /\ IsListBody(pages[1].body)
    /\ Len(pages[1].body.json.items) >= params.limit

\* C2: with limit = L and a first page of at least L records, exactly one
\* request is issued and the first page is returned, "next" link or not.
C2_OneRequestWhenFirstPageMeetsLimit ==
    FirstPageMeetsLimit =>
        /\ Len(requests) = 1
        /\ pc \in {"loop", "done"}
        /\ pc = "loop" => ENABLED PaginateReturn
        /\ pc = "done" => result = JsonResult(pages[1].body.json)

C2_Witness ==
    /\ pc = "done" /\ FirstPageMeetsLimit
    /\ params.limit >= 1
    /\ Len(pages[1].body.json.items) = params.limit
    /\ pages[1].next # NoNext
    /\ Len(requests) = 1

\* A response with status >= 400 whose body is a JSON object with an error field.
ErrorFieldResponse(r) ==
    /\ r.status >= 400
    /\ r.body.text = "json" /\ r.body.json.t = "dict"
    /\ \E i \in 1..Len(r.body.json.items) : r.body.json.items[i].key = "error"

\* C3: a response with status >= 400 and a JSON body with an error field,
\* on the first page or a later one, fails the call with the HTTPError that
\* carries the server's message and the status code, not the generic one.
C3_ServiceErrorCarriesMessage ==
    (Len(pages) >= 1 /\ ErrorFieldResponse(last)) =>
        /\ pc = "failed"
        /\ exc.type = "HTTPError"
        /\ exc.msg = last.body.json.error
        /\ exc.status = last.status
        /\ result = NoResult

C3_Witness ==
    /\ pc = "failed" /\ Len(pages) >= 2 /\ ErrorFieldResponse(last)
    /\ exc = HTTPError("invalid project id", last)

\* C4: a response with status >= 400 whose body is not valid JSON fails the
\* call with the generic HTTPError carrying that status code.
C4_TransportErrorOnNonJsonBody ==
    (Len(pages) >= 1 /\ last.status >= 400 /\ last.body.text # "json") =>
        /\ pc = "failed"
        /\ exc.type = "HTTPError"
        /\ exc.status = last.status

\* C5: a response with status >= 400 whose body is valid JSON without an
\* error field fails the call with the generic HTTPError carrying that
\* status code.
C5_TransportErrorWithoutErrorField ==
    (Len(pages) >= 1 /\ last.status >= 400 /\ last.body.text = "json"
        /\ ~ErrorFieldResponse(last)) =>
        /\ pc = "failed"
        /\ exc.type = "HTTPError"
        /\ exc.msg \in {"Client Error", "Server Error"}
        /\ exc.status = last.status

\* A response that makes the request fail: one _call_api rejects, or one
\* whose body _paginate cannot parse.
FailingResponse(r) == r.status >= 400 \/ (IsPaginate /\ r.body.text # "json")

\* C6: the step that receives a failing response ends the call with that
\* failure and no result; once the call has failed no request is issued
\* (no retry, no further page) and no result is ever returned; a result and
\* a failure never come together.
C6_FailurePropagatesAtOnce ==
    [][/\ (Len(pages') > Len(pages) /\ FailingResponse(last')) =>
            (pc' = "failed" /\ exc' # NoExc /\ result' = NoResult)
       /\ pc = "failed" =>
            (pc' = "failed" /\ requests' = requests /\ exc' = exc /\ result' = NoResult)
       /\ (result' # NoResult) => (exc' = NoExc /\ pc' = "done")
       /\ (exc' # NoExc) => pc' = "failed"]_vars

C6_Witness ==
    /\ pc = "failed" /\ IsPaginate
    /\ Len(requests) = 2 /\ FailingResponse(last)
    /\ Len(json_data.items) > 0
    /\ result = NoResult

\* C7: a fetch-one-by-id accessor issues exactly one request, whatever
\* "next" link the response carries, and returns the parsed JSON body of
\* that response.
C7_ByIdIssuesOneRequest ==
    (accessor \in ByIdAccessors /\ Len(requests) >= 1) =>
        /\ Len(requests) = 1
        /\ pc = "done" => result = JsonResult(last.body.json)

\* A successful response whose body is the empty JSON list.
EmptyListPage(r) == r.status < 400 /\ IsListBody(r.body) /\ Len(r.body.json.items) = 0

\* A successful response whose body is empty or absent.
EmptyBodyPage(r) == r.status < 400 /\ r.body.text = "empty"

\* C8 as stated: a successful page with an empty or absent body, or with
\* the body [], is accepted without error, as first page or as a later one.
C8_EmptyPageAccepted ==
    (IsPaginate /\ Len(pages) >= 1 /\ (EmptyBodyPage(last) \/ EmptyListPage(last))) =>
        (pc \in {"loop", "done"} /\ exc = NoExc)

\* C8, amended: a successful page with the body [] is accepted without
\* error, as first page or as a later one; it adds no record, and the loop
\* then goes on or ends by that response's "next" link and the limit check
\* alone.  A successful page with an empty or absent body fails the call
\* with the ValueError of response.json().
C8_EmptyListAccepted ==
    [][/\ (IsPaginate /\ Len(pages') > Len(pages) /\ EmptyListPage(last')) =>
            /\ pc' = "loop" /\ exc' = NoExc /\ response' = last'
            /\ json_data'.items = json_data.items
            /\ Len(requests) >= 1 => json_data' = json_data
       /\ (IsPaginate /\ Len(pages') > Len(pages) /\ EmptyBodyPage(last')) =>
            (pc' = "failed" /\ exc' = ValueError /\ result' = NoResult)
       /\ (pc = "loop" /\ EmptyListPage(last)) =>
            IF last.next = NoNext
               \/ (params.given /\ params.has_limit
                     /\ Len(json_data.items) >= params.limit)
            THEN pc' = "done" /\ requests' = requests
                 /\ result' = JsonResult(json_data)
            ELSE /\ Len(requests') = Len(requests) + 1
                 /\ requests'[Len(requests')].url = last.next]_vars

C8_Witness ==
    /\ pc = "loop" /\ IsPaginate
    /\ Len(pages) = 2 /\ EmptyListPage(last)
    /\ Len(pages[1].body.json.items) > 0
    /\ json_data = pages[1].body.json

\* C9: when the latest accepted response carries no "next" link, the next
\* step returns the accumulator without a further request, with or without
\* a limit, reached or not.
C9_NoNextEndsPagination ==
    [][/\ (pc = "loop" /\ response.next = NoNext) =>
            (pc' = "done" /\ requests' = requests /\ result' = JsonResult(json_data))
       /\ pc' = "loop" => response' = last']_vars

C9_Witness ==
    /\ pc = "done" /\ IsPaginate
    /\ Len(requests) = 2
    /\ response = last /\ response.next = NoNext
    /\ HasLimit /\ params.limit > Len(json_data.items)
    /\ result = JsonResult(json_data)

\* The first response was accepted by _call_api.
FirstAccepted == (Len(pages) = 1 /\ last.status < 400) \/ Len(pages) >= 2

C11_SecondCallSameAsFirst ==
    (first # NoFirst /\ ~HasLimit /\ pc \in {"done", "failed"}) =>
        /\ pc = first.pc
        /\ result = first.result
        /\ exc = first.exc
        /\ requests = first.requests

C11_Witness ==
    /\ first # NoFirst /\ ~HasLimit /\ pc = "done"
    /\ Len(requests) >= 2
    /\ Len(result.json.items) >= 2
    /\ result = first.result

\* C12: _create_url returns the origin given at construction, then
\* /rest/v2, then the resource path, and nothing else: each part is found
\* unchanged at its place and the lengths add up.
C12_CreateUrlConcatenates ==
    pc = "url" =>
        /\ Len(url) = Len(api_server) + 8 + Len(endpoint)
        /\ SubSeq(url, 1, Len(api_server)) = api_server
        /\ SubSeq(url, Len(api_server) + 1, Len(api_server) + 8) = "/rest/v2"
        /\ SubSeq(url, Len(api_server) + 9, Len(url)) = endpoint
        /\ (api_server = "http://host" /\ endpoint = "/projects/foo") =>
                url = "http://host/rest/v2/projects/foo"

C12_Witness ==
    /\ pc = "url"
    /\ api_server = "http://host" /\ endpoint = "/projects/foo"
    /\ url = "http://host/rest/v2/projects/foo"

\* C13: with limit = L, _paginate returns the records of the shortest
\* prefix of the page chain that holds at least L records, or of the whole
\* chain when none does: before the last page fetched fewer than L records
\* were held, and the last page is kept whole, never cut down to L.
C13_ShortestPrefixReachingLimit ==
    (pc = "done" /\ IsPaginate /\ HasLimit /\ AllListPages) =>
        /\ result.kind = "json" /\ result.json.t = "list"
        /\ result.json.items = RecordsOf(Len(pages))
        /\ \A i \in 1..(Len(pages) - 1) :
                Len(RecordsOf(i)) < params.limit /\ pages[i].next # NoNext
        /\ \/ Len(RecordsOf(Len(pages))) >= params.limit
           \/ pages[Len(pages)].next = NoNext

C13_Witness ==
    /\ pc = "done" /\ IsPaginate /\ HasLimit /\ AllListPages
    /\ Len(pages) = 2
    /\ pages[2].next # NoNext
    /\ Len(result.json.items) > params.limit

\* C14: the first request of a call goes to the accessor's URL with the
\* caller's params; every later request is issued from the loop, once the
\* response to the request before it has been received and accepted, goes to
\* the "next" link of that very response, and carries no params.
C14_SequentialNextLinkRequests ==
    [][Len(requests') > Len(requests) =>
        /\ Len(requests') = Len(requests) + 1
        /\ IF Len(requests) = 0
           THEN /\ requests'[1].url = url
                /\ requests'[1].params = params
           ELSE /\ pc = "loop"
                /\ Len(pages) = Len(requests)
                /\ response = last /\ last.status < 400
                /\ last.next # NoNext
                /\ requests'[Len(requests')].url = last.next
                /\ requests'[Len(requests')].params = NoParams]_vars

C14_Witness ==
    /\ IsPaginate /\ params.given
    /\ Len(requests) = 3 /\ Len(pages) = 3
    /\ requests[1].params = params
    /\ requests[2].params = NoParams /\ requests[3].params = NoParams
    /\ requests[3].url = pages[2].next

C16_CredentialHeadersOnEveryRequest ==
    /\ pc = "idle" => (requests = <<>> /\ log = <<>>)
    /\ \A i \in 1..Len(requests) :
          IF auth.given
          THEN {<<"Api-User", auth.username>>, <<"Api-Key", auth.api_key>>}
                   \subseteq requests[i].headers
          ELSE \A h \in requests[i].headers : h[1] \notin {"Api-User", "Api-Key"}

C16_Witness ==
    /\ auth = EvgAuth("user1", "key1")
    /\ Len(requests) = 3
    /\ \A i \in 1..3 :
          requests[i].headers = {<<"Api-User", "user1">>, <<"Api-Key", "key1">>}

\* A response the call fails on, whatever time it took.
FailsOn(r) ==
    \/ r.status >= 400
    \/ /\ IsPaginate
       /\ \/ r.body.text # "json"
          \/ Len(pages) >= 1 /\ Len(r.body.json.items) > 0 /\ json_data.t # "list"

\* C17 as stated: every request made has its one timing record, at INFO
\* when the time measured exceeds 10 seconds and at DEBUG otherwise.
C17_RecordPerRequestAboveTenSeconds ==
    /\ Len(log) = Len(requests)
    /\ \A i \in 1..Len(log) :
          log[i].level = IF log[i].elapsed > 10000 THEN "INFO" ELSE "DEBUG"

\* C17, amended: every request that is answered has its one timing record,
\* failing responses included, at INFO when the time measured, rounded to
\* hundredths of a second, exceeds 10 seconds and at DEBUG otherwise; a
\* request on which session.get raises has none; the time measured has no
\* part in whether the call fails.
C17_RecordPerResponseRoundedDuration ==
    /\ [](/\ Len(log) = Len(pages)
          /\ \A i \in 1..Len(log) :
                /\ log[i].url = requests[i].url
                /\ log[i].elapsed > 10005 => log[i].level = "INFO"
                /\ log[i].elapsed < 10005 => log[i].level = "DEBUG")
    /\ [][/\ Len(pages') > Len(pages) =>
                /\ Len(log') = Len(log) + 1
                /\ (pc' = "failed") <=> FailsOn(last')
          /\ (Len(requests') > Len(requests) /\ Len(pages') = Len(pages)) =>
                (log' = log /\ pc' = "failed")]_vars

C17_Witness ==
    /\ pc = "failed" /\ IsPaginate
    /\ Len(requests) = 2 /\ Len(log) = 2
    /\ log[1].elapsed = 10006 /\ log[1].level = "INFO"
    /\ log[2].elapsed = 10004 /\ log[2].level = "DEBUG"
    /\ last.status >= 400

\* The chain of "next" links that starts at URL u ends within n responses.
RECURSIVE ChainEnds(_, _)
ChainEnds(u, n) ==
    /\ n > 0
    /\ \/ server[u].next = NoNext
       \/ ChainEnds(server[u].next, n - 1)

\* The loop is at its test with a "next" link in hand and no limit that the
\* accumulated records reach (nor a limit test that raises).
LoopGoesOn ==
    /\ pc = "loop"
    /\ response.next # NoNext
    /\ ~(params.given /\ params.has_limit
          /\ (LenRaises(json_data) \/ Len(json_data.items) >= params.limit))

\* C18: the loop returns only on a response without a "next" link or on a
\* reached limit; with a "next" link in hand and the limit not reached it
\* cannot return and its one step is the next request, to a URL already
\* requested or not, however many requests were made; a call whose chain of
\* "next" links is finite returns or fails; on a server whose "next" links
\* form a cycle, a call without a limit never returns.
C18_LoopEndsOnlyOnNoNextOrLimit ==
    /\ [][(pc = "loop" /\ pc' = "done") =>
              \/ response.next = NoNext
              \/ /\ params.given /\ params.has_limit
                 /\ Len(json_data.items) >= params.limit]_vars
    /\ [](LoopGoesOn =>
              /\ ~ENABLED PaginateReturn
              /\ ~ENABLED PaginateLenError
              /\ Len(requests) < MaxRequests =>
                    ENABLED (\E d \in QuickDurations :
                                PaginateNext(server[response.next], d)))
    /\ (pc \in {"paginate", "loop"} /\ ChainEnds(url, MaxRequests))
            ~> (pc \in {"done", "failed"})
    /\ []((/\ pc \in {"paginate", "loop", "done"}
           /\ ~(params.given /\ params.has_limit)
           /\ ~ChainEnds(url, MaxRequests)) => pc # "done")

C18_Witness ==
    /\ LoopGoesOn
    /\ ~(params.given /\ params.has_limit)
    /\ ~ChainEnds(url, MaxRequests)
    /\ Len(requests) = MaxRequests
    /\ requests[2].url = requests[3].url
    /\ Len(json_data.items) >= 3

\* C19: with limit = L >= 1 and at least one record in every page that was
\* accepted, a call issues at most L requests, "next" link on the last page
\* or not; with limit = 0 it issues one request and no other.
C19_RequestsBoundedByLimit ==
    (IsPaginate /\ params.given /\ params.has_limit) =>
        /\ (/\ params.limit >= 1
            /\ \A i \in 1..(Len(requests) - 1) :
                    /\ pages[i].body.text = "json"
                    /\ Len(pages[i].body.json.items) >= 1)
                => Len(requests) <= params.limit
        /\ params.limit = 0 =>
                /\ Len(requests) <= 1
                /\ pc \in {"loop", "done", "failed"} => Len(requests) = 1

C19_Witness ==
    /\ pc = "done" /\ IsPaginate
    /\ params = ParamsLimit(2)
    /\ Len(requests) = 2 /\ Len(pages) = 2
    /\ \A i \in 1..2 : IsListBody(pages[i].body) /\ Len(pages[i].body.json.items) = 1
    /\ pages[2].next # NoNext
    /\ Len(result.json.items) = 2

TypeOK ==
    /\ pc \in {"idle", "url", "paginate", "call_api", "loop", "done", "failed"}
    /\ Len(pages) <= Len(requests) /\ Len(requests) <= Len(pages) + 1
    /\ Len(requests) <= MaxRequests
    /\ Len(log) >= Len(pages)

====
